---- MODULE Spec2Model ----
(***************************************************************************)
(* Model of the in-memory cache of sanketpayghan/cache.                    *)
(*                                                                         *)
(*   src/unnamed/part_000  localCache: GetIfPresent, Put, Invalidate,      *)
(*                         InvalidateAll, removeOldest                     *)
(*   src/policy.go         entry.lockEntry / entry.unlockEntry, newPolicy  *)
(*                                                                         *)
(* The entries list is Go's container/list, modelled at pointer level      *)
(* (next, prev and list of every element, the root sentinel and len),      *)
(* because the handlers keep *list.Element pointers across critical        *)
(* sections.  Every thread is a program counter walking through the        *)
(* handler it called.  A write-lock or mutex acquisition is a step of its   *)
(* own; the body of a critical section together with the unlocks that end  *)
(* it is one step; a read-locked section, which only reads the map, is one *)
(* step.  An element that nothing refers to any more (not the map, not a   *)
(* thread, not a node reached from those) is garbage: its fields are reset *)
(* to their zero values, as the collector would free it.                   *)
(***************************************************************************)
EXTENDS Integers, Sequences, FiniteSets, TLC

----------------------------------------------------------------------------
(* Bounds of the model.                                                    *)

MaxThreads == 2
MaxKeys == 3
MaxVals == 2
MaxElems == 4
MaxSize == 2
MaxSetup == 2
MaxEntries == 1
MaxCallers == 2
\* The keys and values that the callers of the concurrent specification use.
FreeKeys == 2
FreeVals == 1
\* The last value of the clock, and the keys of the callers that watch it.
MaxClock == 2
TimedKeys == 1

\* const defaultMaximumSize = 1<<31 - 1
defaultMaximumSize == 2147483647

Threads == 1..MaxThreads
Keys == 1..MaxKeys
Values == 1..MaxVals
Elems == 1..MaxElems

\* The sentinel element of the list (list.List.root).
Root == 0
\* A nil pointer, the absent key and the absent thread.
Nil == 0 - 1
Nodes == {Root} \cup Elems

VARIABLES
    maximumSize,   \* localCache.maximumSize
    onRemoval,     \* TRUE iff localCache.onRemoval != nil
    cacheMu,       \* the thread holding the write lock of localCache.cacheMu
    cache,         \* localCache.cache: key -> element, Nil when absent
    entriesMu,     \* the thread holding localCache.entriesMu
    entries,       \* localCache.entries and the link fields of the elements
    ent,           \* el.Value.(*entry) of every element: key, value, lastAccess
    nalloc,        \* number of elements allocated so far
    clock,         \* what currentTime() returns
    pc,            \* the place of every thread in its handler
    loc,           \* the local variables of every thread
    ret,           \* what the last call of every thread returned
    oneShot,       \* TRUE iff every thread makes the one call it starts in
    keys,          \* the keys the callers pass
    vals,          \* the values the callers pass
    policyName,    \* the name newPolicy was last called with
    policy,        \* what newPolicy returned: the policy's type or "panic";
                   \* "none" before the call
    reported,      \* history: listener invocations for every element
    flags,         \* history: what has gone wrong with the listener so far
    log,           \* history: the listener's invocations of a call, as <<key, value>>
    gone,          \* history: key removed and not inserted since
    order,         \* history: the live keys, most recently used first
    hist,          \* history: the last two calls of a sequential history
    evicted,       \* history: <<key evicted, least recently used key>> of a Put
    snap,          \* history: the live pairs at the first InvalidateAll of a row
    remVal,        \* history: the value every removed element held when removed
    isRefreshing,  \* entry.isRefreshing of every refreshable entry
    refreshMu,     \* the caller holding entry.refreshMu
    rpc,           \* the place of every caller in lockEntry / unlockEntry
    rloc,          \* the entry and canRefresh of every caller
    wins           \* history: lockEntry calls that returned true since the last reset

cfgVars == <<maximumSize, onRemoval, oneShot, keys, vals, policyName, policy>>
heapVars == <<cache, entries, ent, nalloc>>
lockVars == <<cacheMu, entriesMu>>
threadVars == <<pc, loc, ret>>
histVars == <<reported, remVal, flags, log, gone, order, hist, evicted, snap>>
refreshVars == <<isRefreshing, refreshMu, rpc, rloc, wins>>
vars == <<cfgVars, heapVars, lockVars, threadVars, clock, histVars, refreshVars>>

----------------------------------------------------------------------------
(* container/list, as the handlers use it.  L is [next, prev, list, len]: *)
(* next and prev of every node, list[e] = (e.list == &c.entries), len.    *)

ListInit(L) ==
    [L EXCEPT !.next[Root] = Root, !.prev[Root] = Root, !.len = 0]

\* List.insert(e, at): e.prev = at; e.next = at.next; e.prev.next = e;
\* e.next.prev = e; e.list = l; l.len++
ListInsert(L, e, at) ==
    LET L1 == [L EXCEPT !.prev[e] = at]
        L2 == [L1 EXCEPT !.next[e] = L1.next[at]]
        L3 == [L2 EXCEPT !.next[L2.prev[e]] = e]
        L4 == [L3 EXCEPT !.prev[L3.next[e]] = e]
    IN  [L4 EXCEPT !.list[e] = TRUE, !.len = @ + 1]

\* List.remove(e): e.prev.next = e.next; e.next.prev = e.prev; e.next = nil;
\* e.prev = nil; e.list = nil; l.len--
ListUnlink(L, e) ==
    LET L1 == [L EXCEPT !.next[L.prev[e]] = L.next[e]]
        L2 == [L1 EXCEPT !.prev[L1.next[e]] = L1.prev[e]]
    IN  [L2 EXCEPT !.next[e] = Nil, !.prev[e] = Nil, !.list[e] = FALSE,
                   !.len = @ - 1]

\* List.move(e, at)
ListMove(L, e, at) ==
    IF e = at THEN L
    ELSE LET L1 == [L EXCEPT !.next[L.prev[e]] = L.next[e]]
             L2 == [L1 EXCEPT !.prev[L1.next[e]] = L1.prev[e]]
             L3 == [L2 EXCEPT !.prev[e] = at]
             L4 == [L3 EXCEPT !.next[e] = L3.next[at]]
             L5 == [L4 EXCEPT !.next[L4.prev[e]] = e]
         IN  [L5 EXCEPT !.prev[L5.next[e]] = e]

\* List.PushFront
PushFront(L, e) == ListInsert(L, e, Root)

\* List.MoveToFront: nothing when e.list != l or e is the front already
MoveToFront(L, e) ==
    IF ~L.list[e] \/ L.next[Root] = e THEN L ELSE ListMove(L, e, Root)

\* A Remove that unlinks nothing.
ListRemove_Nothing(L, e) == L

\* List.Remove: unlinks e only when e.list == l
ListRemove(L, e) == IF L.list[e] THEN ListUnlink(L, e) ELSE L

\* List.Back: nil when len == 0, else root.prev
Back(L) == IF L.len = 0 THEN Nil ELSE L.prev[Root]

\* The elements reached from the root by next, front first (at most
\* MaxElems + 1 of them, so that a cycle not through the root ends too).
RECURSIVE Walk(_, _, _)
Walk(L, n, fuel) ==
    IF n = Root \/ n = Nil \/ fuel = 0 THEN <<>>
    ELSE <<n>> \o Walk(L, L.next[n], fuel - 1)

Linked(L) == Walk(L, L.next[Root], MaxElems + 1)

\* The same from the root by prev, back first.
RECURSIVE WalkBack(_, _, _)
WalkBack(L, n, fuel) ==
    IF n = Root \/ n = Nil \/ fuel = 0 THEN <<>>
    ELSE <<n>> \o WalkBack(L, L.prev[n], fuel - 1)

LinkedBack(L) == WalkBack(L, L.prev[Root], MaxElems + 1)

Range(s) == {s[i] : i \in 1..Len(s)}

----------------------------------------------------------------------------
(* The shared state of a localCache as one record, and the bodies of the   *)
(* critical sections as functions of it.                                   *)

Heap == [cache |-> cache, entries |-> entries, ent |-> ent, nalloc |-> nalloc]

NoEntry == [key |-> Nil, value |-> Nil, lastAccess |-> Nil]

\* newLocalCache: an empty map and an initialised list
EmptyHeap ==
    [cache |-> [k \in Keys |-> Nil],
     entries |-> ListInit([next |-> [n \in Nodes |-> Nil],
                           prev |-> [n \in Nodes |-> Nil],
                           list |-> [n \in Nodes |-> FALSE],
                           len |-> 0]),
     ent |-> [e \in Elems |-> NoEntry],
     nalloc |-> 0]

\* delete(c.cache, k)
MapDelete(m, k) == [m EXCEPT ![k] = Nil]

\* A removeOldest that leaves the victim's key in the map.
removeOldest_KeepsKey(H) ==
    LET el == Back(H.entries) IN
    IF el = Nil THEN [h |-> H, rem |-> Nil, panic |-> FALSE]
    ELSE [h |-> [H EXCEPT !.entries = ListRemove(H.entries, el)],
          rem |-> el, panic |-> FALSE]

\* removeOldest: the back element is removed from the list and its key from
\* the map.  rem is the element whose entry is returned (Nil for nil); panic
\* is the failed type assertion el.Value.(*entry) on a Value that is nil,
\* which is the case when Back() returns the root sentinel.
removeOldest(H) ==
    LET el == Back(H.entries) IN
    IF el = Nil THEN [h |-> H, rem |-> Nil, panic |-> FALSE]
    ELSE IF el = Root
         THEN [h |-> [H EXCEPT !.entries = ListRemove(H.entries, el)],
               rem |-> Nil, panic |-> TRUE]
         ELSE [h |-> [H EXCEPT !.entries = ListRemove(H.entries, el),
                               !.cache = MapDelete(H.cache, H.ent[el].key)],
               rem |-> el, panic |-> FALSE]

\* A Put that evicts whenever the length exceeds the maximum size, positive
\* or not.
PutLocked_EvictsAtZero(H, k, v, tm, maxSize) ==
    LET el == H.cache[k] IN
    IF el # Nil
    THEN [h |-> [H EXCEPT !.ent[el] = [key |-> k, value |-> v, lastAccess |-> tm],
                          !.entries = MoveToFront(H.entries, el)],
          rem |-> Nil, panic |-> FALSE, new |-> Nil]
    ELSE LET e == H.nalloc + 1
             H1 == [H EXCEPT !.nalloc = e,
                             !.ent[e] = [key |-> k, value |-> v, lastAccess |-> tm],
                             !.entries = PushFront(H.entries, e),
                             !.cache[k] = e]
         IN  IF H1.entries.len > maxSize
             THEN [new |-> e] @@ removeOldest(H1)
             ELSE [h |-> H1, rem |-> Nil, panic |-> FALSE, new |-> e]

\* A Put that inserts without the double check.
PutLocked_NoDoubleCheck(H, k, v, tm, maxSize) ==
    LET e == H.nalloc + 1
        H1 == [H EXCEPT !.nalloc = e,
                        !.ent[e] = [key |-> k, value |-> v, lastAccess |-> tm],
                        !.entries = PushFront(H.entries, e),
                        !.cache[k] = e]
    IN  IF maxSize > 0 /\ H1.entries.len > maxSize
        THEN [new |-> e] @@ removeOldest(H1)
        ELSE [h |-> H1, rem |-> Nil, panic |-> FALSE, new |-> e]

\* Put, lines 89-101, under both locks: the double check, then either the
\* replacement of the element's entry or the insertion of a new element and
\* the eviction of the oldest one.
PutLocked(H, k, v, tm, maxSize) ==
    LET el == H.cache[k] IN
    IF el # Nil
    THEN [h |-> [H EXCEPT !.ent[el] = [key |-> k, value |-> v, lastAccess |-> tm],
                          !.entries = MoveToFront(H.entries, el)],
          rem |-> Nil, panic |-> FALSE, new |-> Nil]
    ELSE LET e == H.nalloc + 1
             H1 == [H EXCEPT !.nalloc = e,
                             !.ent[e] = [key |-> k, value |-> v, lastAccess |-> tm],
                             !.entries = PushFront(H.entries, e),
                             !.cache[k] = e]
         IN  IF maxSize > 0 /\ H1.entries.len > maxSize
             THEN [new |-> e] @@ removeOldest(H1)
             ELSE [h |-> H1, rem |-> Nil, panic |-> FALSE, new |-> e]

\* A replacement that moves the element and keeps the old value.
PutHitLocked_KeepsValue(H, el, v, tm) ==
    [H EXCEPT !.ent[el].lastAccess = tm,
              !.entries = MoveToFront(H.entries, el)]

\* Put, lines 72-75, under entriesMu: the value of an existing key
PutHitLocked(H, el, v, tm) ==
    [H EXCEPT !.ent[el].value = v, !.ent[el].lastAccess = tm,
              !.entries = MoveToFront(H.entries, el)]

\* A hit that does not move the element to the front.
GetLocked_NoMove(H, el, tm) == [H EXCEPT !.ent[el].lastAccess = tm]

\* GetIfPresent, lines 56-59, under entriesMu
GetLocked(H, el, tm) ==
    [H EXCEPT !.ent[el].lastAccess = tm,
              !.entries = MoveToFront(H.entries, el)]

\* An Invalidate that leaves the key in the map.
InvalidateLocked_KeepsKey(H, el, k) ==
    [H EXCEPT !.entries = ListRemove(H.entries, el)]

\* Invalidate, lines 119-120, under both locks
InvalidateLocked(H, el, k) ==
    [H EXCEPT !.entries = ListRemove(H.entries, el),
              !.cache = MapDelete(H.cache, k)]

\* An InvalidateAll that resets the list and keeps the map.
InvalidateAllLocked_KeepsMap(H) == [H EXCEPT !.entries = ListInit(H.entries)]

\* InvalidateAll, lines 138-140, under both locks
InvalidateAllLocked(H) ==
    [H EXCEPT !.cache = [k \in Keys |-> Nil],
              !.entries = ListInit(H.entries)]

\* The elements of a map (oldCache in InvalidateAll)
MapElems(m) == {m[k] : k \in Keys} \ {Nil}

SetHeap(H) ==
    /\ cache' = H.cache
    /\ entries' = H.entries
    /\ ent' = H.ent
    /\ nalloc' = H.nalloc

----------------------------------------------------------------------------
(* Threads, locks and the bookkeeping of the histories.                    *)

IdleLoc ==
    [k |-> Nil, v |-> Nil, el |-> Nil, tm |-> Nil, rem |-> Nil, old |-> {}]

NoRet == [op |-> "none", k |-> Nil, ok |-> FALSE, v |-> Nil]

NoFlags == [twice |-> FALSE, live |-> FALSE, value |-> FALSE, lost |-> FALSE]

\* Only thread 1 runs: the history is a sequence of calls.
Sequential == \A t \in Threads \ {1} : pc[t] = "off"

\* The histories of results and of listener invocations are kept for the
\* sequential histories (there the invocations of the current call) and for
\* the scenarios of one call per thread (there all of them).
KeepRet == oneShot \/ Sequential

PutPcs == {"p_read", "p_lock", "p_elock", "p_crit"}

\* A call that may allocate an element starts only while the pool has one
\* left for it.
CanAllocate ==
    nalloc + Cardinality({t \in Threads : pc[t] \in PutPcs}) < MaxElems

\* The <<key, value>> pairs of the map.
LivePairs(H) ==
    {<<k, H.ent[H.cache[k]].value>> : k \in {x \in Keys : H.cache[x] # Nil}}

Touch(o, k) == LET Other(x) == x # k IN <<k>> \o SelectSeq(o, Other)
Drop(o, k) == LET Other(x) == x # k IN SelectSeq(o, Other)

\* The elements the threads hold pointers to.
ThreadRefs(L) ==
    UNION {({L[t].el, L[t].rem} \ {Nil}) \cup L[t].old : t \in Threads}

RECURSIVE Closure(_, _)
Closure(L, S) ==
    LET T == S \cup (({L.next[n] : n \in S} \cup {L.prev[n] : n \in S}) \ {Nil})
    IN  IF T = S THEN S ELSE Closure(L, T)

\* The allocated elements that neither the list, the map nor a thread reaches.
Garbage(H, L) ==
    (1..H.nalloc) \ Closure(H.entries, {Root} \cup MapElems(H.cache) \cup ThreadRefs(L))

Scrub(H, G) ==
    [H EXCEPT !.ent = [e \in Elems |-> IF e \in G THEN NoEntry ELSE H.ent[e]],
              !.entries.next = [n \in Nodes |-> IF n \in G THEN Nil ELSE @[n]],
              !.entries.prev = [n \in Nodes |-> IF n \in G THEN Nil ELSE @[n]],
              !.entries.list = [n \in Nodes |-> IF n \in G THEN FALSE ELSE @[n]]]

\* The end of a step that changed the heap or the pointers a thread holds:
\* H, L, rep, rv and fl are the new heap, locals and histories.  An entry
\* that becomes garbage unreported will never be reported.
Commit(H, L, rep, rv, fl) ==
    LET G == Garbage(H, L) IN
    /\ SetHeap(Scrub(H, G))
    /\ loc' = L
    /\ reported' = [e \in Elems |-> IF e \in G THEN 0 ELSE rep[e]]
    /\ remVal' = [e \in Elems |-> IF e \in G THEN Nil ELSE rv[e]]
    /\ flags' = [fl EXCEPT !.lost = @ \/ (onRemoval /\ \E e \in G :
                                             H.ent[e].key # Nil /\ rep[e] = 0)]

Goto(t, label) == pc' = [pc EXCEPT ![t] = label]

Done(t, r) ==
    /\ pc' = [pc EXCEPT ![t] = IF oneShot THEN "done" ELSE "idle"]
    /\ ret' = [ret EXCEPT ![t] = IF KeepRet THEN r ELSE NoRet]

\* The locals of thread t once its call has returned.
Returned(t) == [loc EXCEPT ![t] = IdleLoc]

\* The start of a call: the arguments, and in a sequential history its name.
Call(t, label, op, k, v) ==
    /\ pc[t] = "idle"
    /\ pc' = [pc EXCEPT ![t] = label]
    /\ loc' = [loc EXCEPT ![t] = [IdleLoc EXCEPT !.k = k, !.v = v]]
    /\ ret' = [ret EXCEPT ![t] = NoRet]
    /\ hist' = IF Sequential THEN <<hist[2], op>> ELSE hist
    /\ evicted' = <<Nil, Nil>>
    /\ snap' = IF Sequential /\ op = "invalidateAll"
               THEN IF hist[2] = "invalidateAll" THEN snap ELSE LivePairs(Heap)
               ELSE {}
    /\ log' = <<>>
    /\ UNCHANGED <<cfgVars, heapVars, lockVars, clock, refreshVars>>
    /\ UNCHANGED <<reported, remVal, flags, gone, order>>

\* c.onRemoval(en.key, en.value) for the entry of element el: the value is
\* read at the call, outside every lock.
ReportedAfter(el) == [reported EXCEPT ![el] = IF @ < 2 THEN @ + 1 ELSE @]

FlagsAfter(el) ==
    [flags EXCEPT !.twice = @ \/ reported[el] >= 1,
                  !.live = @ \/ el \in MapElems(cache),
                  !.value = @ \/ ent[el].value # remVal[el]]

LogAfter(el) ==
    IF KeepRet THEN Append(log, <<ent[el].key, ent[el].value>>) ELSE log

\* sync.RWMutex and sync.Mutex: who may acquire.  A read-locked section is
\* one step, so that cacheMu is never seen read-locked.  (A writer that waits
\* does not keep new readers out here as it does in Go; no handler acquires a
\* lock inside a read-locked section, so that this only adds interleavings.)
CanRLock == cacheMu = Nil
CanLock == cacheMu = Nil
CanELock == entriesMu = Nil

----------------------------------------------------------------------------
(* GetIfPresent, src/unnamed/part_000 lines 46-62                          *)

CallGet(t) == \E k \in keys : Call(t, "g_read", "get", k, Nil)

\* lines 47-52: RLock; el, hit := c.cache[k]; RUnlock; if !hit return nil, false
GetRead(t) ==
    /\ pc[t] = "g_read"
    /\ CanRLock
    /\ IF cache[loc[t].k] = Nil
       THEN /\ Done(t, [op |-> "get", k |-> loc[t].k, ok |-> FALSE, v |-> Nil])
            /\ loc' = Returned(t)
       ELSE /\ Goto(t, "g_elock")
            /\ loc' = [loc EXCEPT ![t].el = cache[loc[t].k]]
            /\ UNCHANGED ret
    /\ UNCHANGED <<cfgVars, heapVars, lockVars, clock, histVars, refreshVars>>

\* line 55: c.entriesMu.Lock()
GetELock(t) ==
    /\ pc[t] = "g_elock"
    /\ CanELock
    /\ entriesMu' = t
    /\ Goto(t, "g_crit")
    /\ UNCHANGED <<cfgVars, heapVars, cacheMu, loc, ret, clock, histVars, refreshVars>>

\* lines 56-61: the entry's time and value, MoveToFront, Unlock, return v, true
GetCrit(t) ==
    /\ pc[t] = "g_crit"
    /\ Commit(GetLocked(Heap, loc[t].el, clock), Returned(t), reported, remVal, flags)
    /\ entriesMu' = Nil
    /\ Done(t, [op |-> "get", k |-> loc[t].k, ok |-> TRUE,
                v |-> ent[loc[t].el].value])
    /\ order' = IF Sequential THEN Touch(order, loc[t].k) ELSE order
    /\ UNCHANGED <<cfgVars, cacheMu, clock, refreshVars, log, gone, hist, evicted, snap>>

----------------------------------------------------------------------------
(* Put, src/unnamed/part_000 lines 65-107                                  *)

CallPut(t) ==
    /\ CanAllocate
    /\ \E k \in keys, v \in vals : Call(t, "p_read", "put", k, v)

\* lines 66-69 and 80-85: RLock; el, hit := c.cache[k]; RUnlock; on a miss
\* en := &entry{key: k, value: v, lastAccess: currentTime()}
PutRead(t) ==
    /\ pc[t] = "p_read"
    /\ CanRLock
    /\ IF cache[loc[t].k] # Nil
       THEN /\ Goto(t, "p_hit_elock")
            /\ loc' = [loc EXCEPT ![t].el = cache[loc[t].k]]
       ELSE /\ Goto(t, "p_lock")
            /\ loc' = [loc EXCEPT ![t].tm = clock]
    /\ UNCHANGED <<cfgVars, heapVars, lockVars, ret, clock, histVars, refreshVars>>

\* line 71: c.entriesMu.Lock()
PutHitELock(t) ==
    /\ pc[t] = "p_hit_elock"
    /\ CanELock
    /\ entriesMu' = t
    /\ Goto(t, "p_hit_crit")
    /\ UNCHANGED <<cfgVars, heapVars, cacheMu, loc, ret, clock, histVars, refreshVars>>

\* lines 72-77: en.value = v, the time, MoveToFront, Unlock, return
PutHitCrit(t) ==
    /\ pc[t] = "p_hit_crit"
    /\ Commit(PutHitLocked(Heap, loc[t].el, loc[t].v, clock), Returned(t),
              reported, remVal, flags)
    /\ entriesMu' = Nil
    /\ Done(t, [op |-> "put", k |-> loc[t].k, ok |-> TRUE, v |-> loc[t].v])
    /\ order' = IF Sequential THEN Touch(order, loc[t].k) ELSE order
    /\ UNCHANGED <<cfgVars, cacheMu, clock, refreshVars, log, gone, hist, evicted, snap>>

\* line 86: c.cacheMu.Lock()
PutLock(t) ==
    /\ pc[t] = "p_lock"
    /\ CanLock
    /\ cacheMu' = t
    /\ Goto(t, "p_elock")
    /\ UNCHANGED <<cfgVars, heapVars, entriesMu, loc, ret, clock, histVars, refreshVars>>

\* line 87: c.entriesMu.Lock()
PutELock(t) ==
    /\ pc[t] = "p_elock"
    /\ CanELock
    /\ entriesMu' = t
    /\ Goto(t, "p_crit")
    /\ UNCHANGED <<cfgVars, heapVars, cacheMu, loc, ret, clock, histVars, refreshVars>>

\* lines 88-104: the double check, the insertion and the eviction, both
\* unlocks, and the test c.onRemoval != nil && remEn != nil.  A panic in
\* removeOldest leaves both locks held.
PutCrit(t) ==
    /\ pc[t] = "p_crit"
    /\ LET k == loc[t].k
           r == PutLocked(Heap, k, loc[t].v, loc[t].tm, maximumSize)
           vk == IF r.rem = Nil THEN Nil ELSE ent[r.rem].key
           o1 == Touch(order, k)
           notify == onRemoval /\ r.rem # Nil
           rv == IF r.rem = Nil THEN remVal
                 ELSE [remVal EXCEPT ![r.rem] = ent[r.rem].value]
           res == [op |-> "put", k |-> k, ok |-> TRUE, v |-> loc[t].v]
       IN  /\ IF r.panic
              THEN /\ Goto(t, "panic")
                   /\ Commit(r.h, loc, reported, rv, flags)
                   /\ UNCHANGED <<lockVars, ret>>
              ELSE /\ cacheMu' = Nil
                   /\ entriesMu' = Nil
                   /\ IF notify
                      THEN /\ Goto(t, "p_notify")
                           /\ UNCHANGED ret
                           /\ Commit(r.h,
                                [loc EXCEPT ![t] =
                                   [IdleLoc EXCEPT
                                      !.rem = r.rem,
                                      !.k = IF KeepRet THEN k ELSE Nil,
                                      !.v = IF KeepRet THEN loc[t].v ELSE Nil]],
                                reported, rv, flags)
                      ELSE /\ Done(t, res)
                           /\ Commit(r.h, Returned(t), reported, rv, flags)
           /\ gone' = [x \in Keys |->
                         IF x = vk THEN TRUE
                         ELSE IF x = k /\ r.new # Nil THEN FALSE ELSE gone[x]]
           /\ order' = IF ~Sequential THEN order
                       ELSE IF r.rem = Nil THEN o1 ELSE Drop(o1, vk)
           /\ evicted' = IF Sequential /\ r.rem # Nil
                         THEN <<vk, o1[Len(o1)]>> ELSE evicted
    /\ UNCHANGED <<cfgVars, clock, refreshVars, log, hist, snap>>

\* line 105: c.onRemoval(remEn.key, remEn.value)
PutNotify(t) ==
    /\ pc[t] = "p_notify"
    /\ log' = LogAfter(loc[t].rem)
    /\ Commit(Heap, Returned(t), ReportedAfter(loc[t].rem), remVal,
              FlagsAfter(loc[t].rem))
    /\ Done(t, [op |-> "put", k |-> loc[t].k, ok |-> TRUE, v |-> loc[t].v])
    /\ UNCHANGED <<cfgVars, lockVars, clock, refreshVars, gone, order, hist, evicted, snap>>

----------------------------------------------------------------------------
(* Invalidate, src/unnamed/part_000 lines 110-129                          *)

CallInvalidate(t) == \E k \in keys : Call(t, "i_lock", "invalidate", k, Nil)

\* lines 111-116: c.cacheMu.Lock(); el, hit := c.cache[k]; on a miss Unlock
\* and return
InvLock(t) ==
    /\ pc[t] = "i_lock"
    /\ CanLock
    /\ IF cache[loc[t].k] = Nil
       THEN /\ Done(t, [op |-> "invalidate", k |-> loc[t].k, ok |-> FALSE,
                        v |-> Nil])
            /\ loc' = Returned(t)
            /\ UNCHANGED cacheMu
       ELSE /\ cacheMu' = t
            /\ Goto(t, "i_elock")
            /\ loc' = [loc EXCEPT ![t].el = cache[loc[t].k]]
            /\ UNCHANGED ret
    /\ UNCHANGED <<cfgVars, heapVars, entriesMu, clock, histVars, refreshVars>>

\* line 117: c.entriesMu.Lock()
InvELock(t) ==
    /\ pc[t] = "i_elock"
    /\ CanELock
    /\ entriesMu' = t
    /\ Goto(t, "i_crit")
    /\ UNCHANGED <<cfgVars, heapVars, cacheMu, loc, ret, clock, histVars, refreshVars>>

\* lines 119-125: c.entries.Remove(el); delete(c.cache, k); both unlocks; the
\* test c.onRemoval != nil
InvCrit(t) ==
    /\ pc[t] = "i_crit"
    /\ LET el == loc[t].el
           H1 == InvalidateLocked(Heap, el, loc[t].k)
           rv == [remVal EXCEPT ![el] = ent[el].value]
       IN  IF onRemoval
           THEN /\ Goto(t, "i_notify")
                /\ UNCHANGED ret
                /\ Commit(H1, loc, reported, rv, flags)
           ELSE /\ Done(t, [op |-> "invalidate", k |-> loc[t].k, ok |-> TRUE,
                            v |-> Nil])
                /\ Commit(H1, Returned(t), reported, rv, flags)
    /\ cacheMu' = Nil
    /\ entriesMu' = Nil
    /\ gone' = [gone EXCEPT ![loc[t].k] = TRUE]
    /\ order' = IF Sequential THEN Drop(order, loc[t].k) ELSE order
    /\ UNCHANGED <<cfgVars, clock, refreshVars, log, hist, evicted, snap>>

\* lines 126-127: en := el.Value.(*entry); c.onRemoval(en.key, en.value)
InvNotify(t) ==
    /\ pc[t] = "i_notify"
    /\ log' = LogAfter(loc[t].el)
    /\ Commit(Heap, Returned(t), ReportedAfter(loc[t].el), remVal,
              FlagsAfter(loc[t].el))
    /\ Done(t, [op |-> "invalidate", k |-> loc[t].k, ok |-> TRUE, v |-> Nil])
    /\ UNCHANGED <<cfgVars, lockVars, clock, refreshVars, gone, order, hist, evicted, snap>>

----------------------------------------------------------------------------
(* InvalidateAll, src/unnamed/part_000 lines 132-151                       *)

CallInvalidateAll(t) == Call(t, "a_lock", "invalidateAll", Nil, Nil)

\* line 135: c.cacheMu.Lock()
AllLock(t) ==
    /\ pc[t] = "a_lock"
    /\ CanLock
    /\ cacheMu' = t
    /\ Goto(t, "a_elock")
    /\ UNCHANGED <<cfgVars, heapVars, entriesMu, loc, ret, clock, histVars, refreshVars>>

\* line 136: c.entriesMu.Lock()
AllELock(t) ==
    /\ pc[t] = "a_elock"
    /\ CanELock
    /\ entriesMu' = t
    /\ Goto(t, "a_crit")
    /\ UNCHANGED <<cfgVars, heapVars, cacheMu, loc, ret, clock, histVars, refreshVars>>

\* lines 138-145: oldCache = c.cache; a new map; c.entries.Init(); both
\* unlocks; the test c.onRemoval != nil (and a loop over an empty map ends)
AllCrit(t) ==
    /\ pc[t] = "a_crit"
    /\ LET old == MapElems(cache)
           H1 == InvalidateAllLocked(Heap)
           rv == [e \in Elems |-> IF e \in old THEN ent[e].value ELSE remVal[e]]
       IN  IF onRemoval /\ old # {}
           THEN /\ Goto(t, "a_notify")
                /\ UNCHANGED ret
                /\ Commit(H1, [loc EXCEPT ![t].old = old], reported, rv, flags)
           ELSE /\ Done(t, [op |-> "invalidateAll", k |-> Nil, ok |-> TRUE,
                            v |-> Nil])
                /\ Commit(H1, Returned(t), reported, rv, flags)
    /\ cacheMu' = Nil
    /\ entriesMu' = Nil
    /\ gone' = [k \in Keys |-> IF cache[k] # Nil THEN TRUE ELSE gone[k]]
    /\ order' = IF Sequential THEN <<>> ELSE order
    /\ UNCHANGED <<cfgVars, clock, refreshVars, log, hist, evicted, snap>>

\* lines 146-149: one round of the loop over oldCache, in any order
AllNotify(t) ==
    /\ pc[t] = "a_notify"
    /\ \E el \in loc[t].old :
          /\ log' = LogAfter(el)
          /\ IF loc[t].old = {el}
             THEN /\ Done(t, [op |-> "invalidateAll", k |-> Nil, ok |-> TRUE,
                              v |-> Nil])
                  /\ Commit(Heap, Returned(t), ReportedAfter(el), remVal,
                            FlagsAfter(el))
             ELSE /\ UNCHANGED <<pc, ret>>
                  /\ Commit(Heap, [loc EXCEPT ![t].old = @ \ {el}],
                            ReportedAfter(el), remVal, FlagsAfter(el))
    /\ UNCHANGED <<cfgVars, lockVars, clock, refreshVars, gone, order, hist, evicted, snap>>

----------------------------------------------------------------------------
(* entry.lockEntry and entry.unlockEntry, src/policy.go lines 39-52        *)

Entries == 1..MaxEntries
Callers == 1..MaxCallers

NoRLoc == [e |-> Nil, can |-> FALSE, held |-> {}]

\* A lockEntry that does not set the flag.
lockEntryLocked_NoSet(flag) == [can |-> ~flag, flag |-> flag]

\* lines 42-43: canRefresh := !en.isRefreshing; en.isRefreshing = true
lockEntryLocked(flag) == [can |-> ~flag, flag |-> TRUE]

\* An unlockEntry that flips the flag.
unlockEntryLocked_Toggle(flag) == ~flag

\* line 50: en.isRefreshing = false
unlockEntryLocked(flag) == FALSE

CallLockEntry(c) ==
    /\ rpc[c] = "idle"
    /\ \E e \in Entries :
          rloc' = [rloc EXCEPT ![c].e = e, ![c].can = FALSE]
    /\ rpc' = [rpc EXCEPT ![c] = "l_lock"]
    /\ UNCHANGED <<isRefreshing, refreshMu, wins>>

\* line 41: en.refreshMu.Lock()
LockEntryLock(c) ==
    /\ rpc[c] = "l_lock"
    /\ refreshMu[rloc[c].e] = Nil
    /\ refreshMu' = [refreshMu EXCEPT ![rloc[c].e] = c]
    /\ rpc' = [rpc EXCEPT ![c] = "l_crit"]
    /\ UNCHANGED <<isRefreshing, rloc, wins>>

\* lines 42-45: the flag, Unlock, return canRefresh
LockEntryCrit(c) ==
    /\ rpc[c] = "l_crit"
    /\ LET e == rloc[c].e
           r == lockEntryLocked(isRefreshing[e])
       IN  /\ isRefreshing' = [isRefreshing EXCEPT ![e] = r.flag]
           /\ refreshMu' = [refreshMu EXCEPT ![e] = Nil]
           /\ rloc' = [rloc EXCEPT ![c].can = r.can,
                                   ![c].held = IF r.can THEN @ \cup {e} ELSE @]
           /\ wins' = [wins EXCEPT ![e].n = IF r.can /\ @ < 2 THEN @ + 1 ELSE @]
    /\ rpc' = [rpc EXCEPT ![c] = "idle"]

CallUnlockEntry(c) ==
    /\ rpc[c] = "idle"
    /\ \E e \in Entries :
          rloc' = [rloc EXCEPT ![c].e = e, ![c].can = FALSE]
    /\ rpc' = [rpc EXCEPT ![c] = "u_lock"]
    /\ UNCHANGED <<isRefreshing, refreshMu, wins>>

\* line 49: en.refreshMu.Lock()
UnlockEntryLock(c) ==
    /\ rpc[c] = "u_lock"
    /\ refreshMu[rloc[c].e] = Nil
    /\ refreshMu' = [refreshMu EXCEPT ![rloc[c].e] = c]
    /\ rpc' = [rpc EXCEPT ![c] = "u_crit"]
    /\ UNCHANGED <<isRefreshing, rloc, wins>>

\* lines 50-51: en.isRefreshing = false; Unlock
UnlockEntryCrit(c) ==
    /\ rpc[c] = "u_crit"
    /\ LET e == rloc[c].e
       IN  /\ isRefreshing' = [isRefreshing EXCEPT ![e] = unlockEntryLocked(@)]
           /\ refreshMu' = [refreshMu EXCEPT ![e] = Nil]
           /\ rloc' = [rloc EXCEPT ![c].held = @ \ {e}]
           /\ wins' = [wins EXCEPT ![e].n = 0,
                                   ![e].foul = @ \/ e \notin rloc[c].held]
    /\ rpc' = [rpc EXCEPT ![c] = "idle"]

----------------------------------------------------------------------------
(* The specifications.                                                     *)

InitRefresh ==
    /\ isRefreshing = [e \in Entries |-> FALSE]
    /\ refreshMu = [e \in Entries |-> Nil]
    /\ rpc = [c \in Callers |-> "idle"]
    /\ rloc = [c \in Callers |-> NoRLoc]
    /\ wins = [e \in Entries |-> [n |-> 0, foul |-> FALSE]]

\* No policy has been asked for.
InitPolicy ==
    /\ policyName = ""
    /\ policy = "none"

\* The state after New(WithMaximumSize(m), WithRemovalListener(..)).
InitCache ==
    /\ InitPolicy
    /\ cache = EmptyHeap.cache
    /\ entries = EmptyHeap.entries
    /\ ent = EmptyHeap.ent
    /\ nalloc = EmptyHeap.nalloc
    /\ cacheMu = Nil
    /\ entriesMu = Nil
    /\ clock = 0
    /\ loc = [t \in Threads |-> IdleLoc]
    /\ ret = [t \in Threads |-> NoRet]
    /\ reported = [e \in Elems |-> 0]
    /\ flags = NoFlags
    /\ log = <<>>
    /\ remVal = [e \in Elems |-> Nil]
    /\ gone = [k \in Keys |-> FALSE]
    /\ order = <<>>
    /\ hist = <<"none", "none">>
    /\ evicted = <<Nil, Nil>>
    /\ snap = {}

\* Concurrent callers of a bounded cache with a listener.
Init ==
    /\ InitCache
    /\ InitRefresh
    /\ maximumSize \in 1..MaxSize
    /\ onRemoval = TRUE
    /\ oneShot = FALSE
    /\ keys = 1..FreeKeys
    /\ vals = 1..FreeVals
    /\ pc = [t \in Threads |-> "idle"]

\* One caller: every history is sequential.
InitSeq ==
    /\ InitCache
    /\ InitRefresh
    /\ maximumSize \in 0..MaxSize
    /\ onRemoval \in BOOLEAN
    /\ oneShot = FALSE
    /\ keys = Keys
    /\ vals = Values
    /\ pc = [t \in Threads |-> IF t = 1 THEN "idle" ELSE "off"]

Step(t) ==
    \/ CallGet(t)
    \/ GetRead(t)
    \/ GetELock(t)
    \/ GetCrit(t)
    \/ CallPut(t)
    \/ PutRead(t)
    \/ PutHitELock(t)
    \/ PutHitCrit(t)
    \/ PutLock(t)
    \/ PutELock(t)
    \/ PutCrit(t)
    \/ PutNotify(t)
    \/ CallInvalidate(t)
    \/ InvLock(t)
    \/ InvELock(t)
    \/ InvCrit(t)
    \/ InvNotify(t)
    \/ CallInvalidateAll(t)
    \/ AllLock(t)
    \/ AllELock(t)
    \/ AllCrit(t)
    \/ AllNotify(t)

Next == \E t \in Threads : Step(t)

Spec == Init /\ [][Next]_vars

SpecSeq == InitSeq /\ [][Next]_vars

\* A newPolicy without the default: the empty name is unsupported too.
newPolicy_NoDefault(name) ==
    IF name = "slru" THEN "slruCache"
    ELSE IF name = "lru" THEN "lruCache"
    ELSE IF name = "tinylfu" THEN "tinyLFU"
    ELSE "panic"

\* newPolicy, src/policy.go lines 69-80: the type of the policy returned, or
\* "panic"
newPolicy(name) ==
    IF name \in {"", "slru"} THEN "slruCache"
    ELSE IF name = "lru" THEN "lruCache"
    ELSE IF name = "tinylfu" THEN "tinyLFU"
    ELSE "panic"

\* The names newPolicy is called with.
PolicyNames ==
    {"", "lru", "slru", "tinylfu",
     "LRU", "Slru", "tinyLFU", "lfu", "arc", "fifo", " lru", "lru ", "none"}

\* The construction of a cache: New (lines 166-173) applies the options in
\* turn to the cache newLocalCache returns, and a policy is asked for by
\* name.  A panic ends it.
InitNew ==
    /\ InitCache
    /\ InitRefresh
    /\ maximumSize = defaultMaximumSize
    /\ onRemoval = FALSE
    /\ oneShot = FALSE
    /\ keys = {}
    /\ vals = {}
    /\ pc = [t \in Threads |-> "off"]

\* WithMaximumSize(size), lines 180-184
WithMaximumSize ==
    /\ policy # "panic"
    /\ \E size \in (0 - 1)..MaxSize : maximumSize' = size
    /\ UNCHANGED <<onRemoval, oneShot, keys, vals, policyName, policy>>
    /\ UNCHANGED <<heapVars, lockVars, threadVars, clock, histVars, refreshVars>>

\* WithRemovalListener(onRemoval), lines 188-192; the listener may be nil
WithRemovalListener ==
    /\ policy # "panic"
    /\ \E f \in BOOLEAN : onRemoval' = f
    /\ UNCHANGED <<maximumSize, oneShot, keys, vals, policyName, policy>>
    /\ UNCHANGED <<heapVars, lockVars, threadVars, clock, histVars, refreshVars>>

\* newPolicy(name)
NewPolicy ==
    /\ policy # "panic"
    /\ \E name \in PolicyNames :
          /\ policyName' = name
          /\ policy' = newPolicy(name)
    /\ UNCHANGED <<maximumSize, onRemoval, oneShot, keys, vals>>
    /\ UNCHANGED <<heapVars, lockVars, threadVars, clock, histVars, refreshVars>>

NextNew ==
    \/ WithMaximumSize
    \/ WithRemovalListener
    \/ NewPolicy

SpecNew == InitNew /\ [][NextNew]_vars

\* Concurrent callers of a cache with a listener whose maximum size is
\* negative, zero (both unbounded) or one.
InitUnbounded ==
    /\ InitCache
    /\ InitRefresh
    /\ maximumSize \in {0 - 1, 0, 1}
    /\ onRemoval = TRUE
    /\ oneShot = FALSE
    /\ keys = 1..FreeKeys
    /\ vals = 1..FreeVals
    /\ pc = [t \in Threads |-> "idle"]

SpecUnbounded == InitUnbounded /\ [][Next]_vars

\* Concurrent callers of Put, Invalidate and InvalidateAll only.
WriterStep(t) ==
    \/ CallPut(t)
    \/ PutRead(t)
    \/ PutHitELock(t)
    \/ PutHitCrit(t)
    \/ PutLock(t)
    \/ PutELock(t)
    \/ PutCrit(t)
    \/ PutNotify(t)
    \/ CallInvalidate(t)
    \/ InvLock(t)
    \/ InvELock(t)
    \/ InvCrit(t)
    \/ InvNotify(t)
    \/ CallInvalidateAll(t)
    \/ AllLock(t)
    \/ AllELock(t)
    \/ AllCrit(t)
    \/ AllNotify(t)

NextWriters == \E t \in Threads : WriterStep(t)

SpecWriters == Init /\ [][NextWriters]_vars

cacheVars == <<cfgVars, heapVars, lockVars, threadVars, clock, histVars>>

RefreshStep(c) ==
    /\ \/ CallLockEntry(c)
       \/ LockEntryLock(c)
       \/ LockEntryCrit(c)
       \/ CallUnlockEntry(c)
       \/ UnlockEntryLock(c)
       \/ UnlockEntryCrit(c)
    /\ UNCHANGED cacheVars

NextRefresh == \E c \in Callers : RefreshStep(c)

SpecRefresh == Init /\ [][NextRefresh]_vars

----------------------------------------------------------------------------
(* One GetIfPresent(k) against one Invalidate(k) on a populated cache.     *)

SetupSeqs == UNION {[1..n -> Keys \X Values] : n \in 0..MaxSetup}

\* A sequential Put on heap H, as one step.
SeqPut(H, k, v, maxSize) ==
    LET H1 == IF H.cache[k] # Nil
              THEN PutHitLocked(H, H.cache[k], v, 0)
              ELSE PutLocked(H, k, v, 0, maxSize).h
    IN  Scrub(H1, Garbage(H1, [t \in Threads |-> IdleLoc]))

\* The heap after the Puts of s, one after the other, on a new cache.
RECURSIVE Build(_, _)
Build(s, maxSize) ==
    IF s = <<>> THEN EmptyHeap
    ELSE LET n == Len(s)
         IN  SeqPut(Build(SubSeq(s, 1, n - 1), maxSize), s[n][1], s[n][2], maxSize)

\* The keys of the linked elements, front first.
KeysLinked(H) ==
    [i \in 1..Len(Linked(H.entries)) |-> H.ent[Linked(H.entries)[i]].key]

\* currentTime() advances (time.Now, line 12); it never goes back.
Tick ==
    /\ clock < MaxClock
    /\ clock' = clock + 1
    /\ UNCHANGED <<cfgVars, heapVars, lockVars, threadVars, histVars, refreshVars>>

\* Concurrent callers while the clock advances, on a cache that already holds
\* key MaxKeys from an earlier Put.
InitTimed ==
    /\ InitPolicy
    /\ InitRefresh
    /\ maximumSize \in 1..MaxSize
    /\ onRemoval = TRUE
    /\ oneShot = FALSE
    /\ keys = 1..TimedKeys
    /\ vals = 1..FreeVals
    /\ LET H == Build(<< <<MaxKeys, 1>> >>, maximumSize) IN
       /\ cache = H.cache
       /\ entries = H.entries
       /\ ent = H.ent
       /\ nalloc = H.nalloc
       /\ order = KeysLinked(H)
    /\ cacheMu = Nil
    /\ entriesMu = Nil
    /\ clock = 0
    /\ loc = [t \in Threads |-> IdleLoc]
    /\ ret = [t \in Threads |-> NoRet]
    /\ reported = [e \in Elems |-> 0]
    /\ flags = NoFlags
    /\ log = <<>>
    /\ remVal = [e \in Elems |-> Nil]
    /\ gone = [k \in Keys |-> FALSE]
    /\ hist = <<"none", "none">>
    /\ evicted = <<Nil, Nil>>
    /\ snap = {}
    /\ pc = [t \in Threads |-> "idle"]

NextTimed ==
    \/ \E t \in Threads : Step(t)
    \/ Tick

SpecTimed == InitTimed /\ [][NextTimed]_vars

\* Two calls on key k about to start on a cache that sequential Puts have
\* populated: thread 1 at label1 with a value of V1, thread 2 at label2 with
\* a value of V2; k is in the cache iff live.
RaceStart(label1, label2, live, V1, V2) ==
    /\ InitRefresh
    /\ InitPolicy
    /\ maximumSize \in 1..MaxSize
    /\ onRemoval = TRUE
    /\ oneShot = TRUE
    /\ keys = Keys
    /\ vals = Values
    /\ \E s \in SetupSeqs :
          LET H == Build(s, maximumSize) IN
          /\ cache = H.cache
          /\ entries = H.entries
          /\ ent = H.ent
          /\ nalloc = H.nalloc
          /\ snap = LivePairs(H)
          /\ order = KeysLinked(H)
    /\ cacheMu = Nil
    /\ entriesMu = Nil
    /\ clock = 0
    /\ \E k \in Keys, v1 \in V1, v2 \in V2 :
          /\ (cache[k] # Nil) = live
          /\ loc = [t \in Threads |->
                      IF t = 1 THEN [IdleLoc EXCEPT !.k = k, !.v = v1]
                      ELSE IF t = 2 THEN [IdleLoc EXCEPT !.k = k, !.v = v2]
                      ELSE IdleLoc]
    /\ pc = [t \in Threads |->
               IF t = 1 THEN label1 ELSE IF t = 2 THEN label2 ELSE "off"]
    /\ ret = [t \in Threads |-> NoRet]
    /\ reported = [e \in Elems |-> 0]
    /\ remVal = [e \in Elems |-> Nil]
    /\ flags = NoFlags
    /\ log = <<>>
    /\ gone = [k \in Keys |-> FALSE]
    /\ hist = <<"none", "none">>
    /\ evicted = <<Nil, Nil>>

\* GetIfPresent(k) against Invalidate(k), k live.
InitRace == RaceStart("g_read", "i_lock", TRUE, {Nil}, {Nil})

RaceStep(t) ==
    \/ GetRead(t)
    \/ GetELock(t)
    \/ GetCrit(t)
    \/ InvLock(t)
    \/ InvELock(t)
    \/ InvCrit(t)
    \/ InvNotify(t)

NextRace == \E t \in Threads : RaceStep(t)

SpecRace == InitRace /\ [][NextRace]_vars

\* Put(k, v1) against Put(k, v2), k absent.
InitPutPut == RaceStart("p_read", "p_read", FALSE, Values, Values)

PutPutStep(t) ==
    \/ PutRead(t)
    \/ PutHitELock(t)
    \/ PutHitCrit(t)
    \/ PutLock(t)
    \/ PutELock(t)
    \/ PutCrit(t)
    \/ PutNotify(t)

NextPutPut == \E t \in Threads : PutPutStep(t)

SpecPutPut == InitPutPut /\ [][NextPutPut]_vars

\* Put(k, v1) against Invalidate(k), k live.  The Put adds no key beyond
\* those of the start, so it evicts nothing (rem == nil at line 104) and
\* returns from PutCrit.
InitPutInv == RaceStart("p_read", "i_lock", TRUE, Values, {Nil})

PutInvStep(t) ==
    \/ PutRead(t)
    \/ PutHitELock(t)
    \/ PutHitCrit(t)
    \/ PutLock(t)
    \/ PutELock(t)
    \/ PutCrit(t)
    \/ InvLock(t)
    \/ InvELock(t)
    \/ InvCrit(t)
    \/ InvNotify(t)

NextPutInv == \E t \in Threads : PutInvStep(t)

SpecPutInv == InitPutInv /\ [][NextPutInv]_vars

----------------------------------------------------------------------------
(* The claims.                                                             *)

LiveKeys == {k \in Keys : cache[k] # Nil}

NoLockHeld == cacheMu = Nil /\ entriesMu = Nil

\* C1: with a positive maximum size M, after every Put of a sequential
\* history has returned the map holds at most M keys.
C1_Capacity ==
    (pc[1] = "idle" /\ hist[2] = "put" /\ maximumSize > 0)
        => Cardinality(LiveKeys) <= maximumSize

\* A Put has returned that overflowed the cache and evicted an entry.
C1_Witness ==
    /\ pc[1] = "idle" /\ hist[2] = "put" /\ maximumSize > 0
    /\ evicted[1] # Nil
    /\ Cardinality(LiveKeys) = maximumSize

\* The map and the list agree: a key is in the map iff exactly one linked
\* element carries it, the map holds that element, and len counts the
\* linked elements.
IndexMatchesList ==
    LET lk == Linked(entries) IN
    /\ \A k \in Keys :
          LET at == {i \in 1..Len(lk) : ent[lk[i]].key = k} IN
          /\ cache[k] # Nil <=> Cardinality(at) = 1
          /\ cache[k] # Nil => \A i \in at : lk[i] = cache[k]
    /\ entries.len = Len(lk)

\* C2: whenever no thread holds cacheMu or entriesMu, the map and the list
\* agree, under every interleaving of the four operations.
C2_IndexMatchesList == NoLockHeld => IndexMatchesList

\* C3: once k has been invalidated or evicted and no Put has inserted it
\* since, k is not in the map and a GetIfPresent(k) that reads the map
\* returns absent at once.
C3_AbsentAfterRemoval ==
    [][\A t \in Threads :
          (pc[t] = "g_read" /\ gone[loc[t].k] /\ pc'[t] # "g_read")
              => (pc'[t] = "idle" /\ cache[loc[t].k] = Nil)]_vars

\* A GetIfPresent(k) is about to read the map after k was removed.
C3_Witness ==
    \E t \in Threads : pc[t] = "g_read" /\ gone[loc[t].k] /\ cache[loc[t].k] = Nil

\* C4: in a sequential history the key a Put evicts is the live key whose
\* last Put or hit is the oldest.
C4_EvictsLeastRecentlyUsed == evicted[1] = evicted[2]

\* A Put evicts a key although an element inserted before the victim's is
\* still in the map: a hit or a replacement has saved the older one.
C4_Witness ==
    /\ pc[1] = "p_notify"
    /\ evicted[1] # Nil
    /\ \E k \in LiveKeys : cache[k] < loc[1].rem

\* The callers that won lockEntry on e and have not called unlockEntry since.
Holders(e) == {c \in Callers : e \in rloc[c].held}

\* C5: of the lockEntry calls on an entry since its flag was last reset at
\* most one returned true, the flag is set iff one did, and as long as only
\* holders call unlockEntry at most one caller holds the entry.
C5_RefreshExclusion ==
    \A e \in Entries :
       /\ wins[e].n <= 1
       /\ refreshMu[e] = Nil => (isRefreshing[e] <=> wins[e].n = 1)
       /\ ~wins[e].foul => Cardinality(Holders(e)) <= 1

\* One caller holds the entry and another one's lockEntry has returned false.
C5_Witness ==
    \E e \in Entries, c, d \in Callers :
       /\ c # d
       /\ e \in rloc[c].held
       /\ ~wins[e].foul
       /\ rpc[d] = "idle" /\ rloc[d].e = e /\ ~rloc[d].can /\ e \notin rloc[d].held
       /\ wins[e].n = 1

\* C6: every entry that leaves the cache is reported exactly once, a live
\* entry never, and with the value it held when it was removed.
C6_ReportedExactlyOnce ==
    ~flags.twice /\ ~flags.live /\ ~flags.value /\ ~flags.lost

NotifyPcs == {"p_notify", "i_notify", "a_notify"}

\* The elements whose entries thread t is about to report.
Pending(t) ==
    IF pc[t] = "p_notify" THEN {loc[t].rem}
    ELSE IF pc[t] = "i_notify" THEN {loc[t].el}
    ELSE IF pc[t] = "a_notify" THEN loc[t].old
    ELSE {}

\* C7: at every invocation of the listener the thread holds no lock and the
\* reported element is neither in the map nor linked in the list.
C7_ListenerOutsideCache ==
    \A t \in Threads :
       pc[t] \in NotifyPcs =>
          /\ cacheMu # t /\ entriesMu # t
          /\ \A el \in Pending(t) :
                /\ el \notin MapElems(cache)
                /\ el \notin Range(Linked(entries)) \cup Range(LinkedBack(entries))

\* The pairs of a sequence, as a set.
Pairs(q) == {q[i] : i \in 1..Len(q)}

\* C8: in a sequential history, when InvalidateAll has returned the map and
\* the list are empty; the first call of a row has fired the listener once
\* for every entry live at the call, a call that follows it at once has not
\* fired it and has left the empty cache as it was; and a GetIfPresent that
\* follows an InvalidateAll returns absent.
C8_IdempotentClear ==
    /\ (pc[1] = "idle" /\ hist[2] = "invalidateAll") =>
          /\ cache = EmptyHeap.cache
          /\ entries = EmptyHeap.entries
          /\ LivePairs(Heap) = {}
          /\ IF hist[1] = "invalidateAll"
             THEN log = <<>>
             ELSE /\ Pairs(log) = (IF onRemoval THEN snap ELSE {})
                  /\ Len(log) = Cardinality(Pairs(log))
    /\ (pc[1] = "idle" /\ hist = <<"invalidateAll", "get">>) => ~ret[1].ok

\* A second InvalidateAll in a row has returned, and the first one had found
\* two entries to report.
C8_Witness ==
    /\ pc[1] = "idle"
    /\ hist = <<"invalidateAll", "invalidateAll">>
    /\ onRemoval
    /\ Cardinality(snap) = 2
    /\ log = <<>>

Busy(t) == pc[t] \notin {"idle", "done", "off"}

\* The places where a thread is about to acquire cacheMu.
CacheMuRequests == {"g_read", "p_read", "p_lock", "i_lock", "a_lock"}

\* The places where a thread is about to acquire entriesMu.
EntriesMuRequests == {"g_elock", "p_hit_elock", "p_elock", "i_elock", "a_elock"}

\* Thread t, in a call, can take its next step: the lock it requests is
\* free, or it is inside a critical section or at the listener.  A thread in
\* a panic never steps again.
Runnable(t) ==
    /\ pc[t] # "panic"
    /\ pc[t] \in CacheMuRequests => cacheMu = Nil
    /\ pc[t] \in EntriesMuRequests => entriesMu = Nil

\* C9: no thread requests cacheMu while it holds entriesMu, and as long as a
\* call is in progress some thread in a call can take a step: no deadlock,
\* every call can return.
C9_LockOrderNoDeadlock ==
    /\ \A t \in Threads : pc[t] \in CacheMuRequests => entriesMu # t
    /\ (\E t \in Threads : Busy(t)) =>
          \E t \in Threads : Busy(t) /\ Runnable(t)

RaceDone == pc[1] = "done" /\ pc[2] = "done"

\* C10: GetIfPresent(k) against Invalidate(k) on a live key: the lookup
\* returns absent or the value stored before the removal, and when both have
\* returned k is gone from the map and the list, every other entry is
\* as it was, and the listener was called once, for k and its value.
C10_GetAgainstInvalidate ==
    /\ pc[1] = "done" =>
          /\ ret[1].op = "get"
          /\ ret[1].ok => <<ret[1].k, ret[1].v>> \in snap
          /\ ~ret[1].ok => ret[1].v = Nil
    /\ RaceDone =>
          LET k == ret[2].k IN
          /\ cache[k] = Nil
          /\ KeysLinked(Heap) = Drop(order, k)
          /\ IndexMatchesList
          /\ \E v \in Values :
                /\ <<k, v>> \in snap
                /\ LivePairs(Heap) = snap \ {<<k, v>>}
                /\ log = << <<k, v>> >>

\* Both calls have returned, the lookup with the value, and another key is
\* still in the cache.
C10_Witness ==
    /\ RaceDone
    /\ ret[1].ok
    /\ LiveKeys # {}

\* C11: two concurrent Puts of an absent key k: when both have returned the
\* map holds one element for k, one linked element carries k, one entry was
\* added (and one other entry evicted iff the cache was full), the value is
\* that of one of the two Puts, and every other entry is as it was.
C11_DoubleCheckedInsert ==
    RaceDone =>
       LET k == ret[1].k
           lk == Linked(entries)
           full == Cardinality(snap) + 1 > maximumSize
       IN  /\ cache[k] # Nil
           /\ Cardinality({i \in 1..Len(lk) : ent[lk[i]].key = k}) = 1
           /\ IndexMatchesList
           /\ ent[cache[k]].value \in {ret[1].v, ret[2].v}
           /\ Len(log) = (IF full THEN 1 ELSE 0)
           /\ Pairs(log) \subseteq snap
           /\ Cardinality(LiveKeys) = Cardinality(snap) + 1 - Len(log)
           /\ LivePairs(Heap) = (snap \ Pairs(log)) \cup {<<k, ent[cache[k]].value>>}

\* Both Puts have returned, with different values, and the insertion evicted
\* an entry.
C11_Witness ==
    /\ RaceDone
    /\ ret[1].op = "put" /\ ret[2].op = "put"
    /\ ret[1].v # ret[2].v
    /\ Len(log) = 1
    /\ cache[ret[1].k] # Nil

\* The places of a thread inside Put before its listener call.
InPut == PutPcs \cup {"p_hit_elock", "p_hit_crit"}

\* C12: with a maximum size of 0 or less no step of a Put takes a key out of
\* the map, a key leaves the map only in the critical section of Invalidate
\* or InvalidateAll, no Put reaches its listener call, and the listener is
\* invoked from Invalidate and InvalidateAll only.
C12_Unbounded ==
    [][maximumSize <= 0 =>
          /\ \A k \in Keys :
                (cache[k] # Nil /\ cache'[k] = Nil) =>
                   \E t \in Threads : pc[t] \in {"i_crit", "a_crit"} /\ pc'[t] # pc[t]
          /\ \A t \in Threads :
                /\ pc'[t] \notin {"p_notify", "panic"}
                /\ (pc[t] \in InPut /\ pc'[t] # pc[t]) =>
                      \A k \in Keys : cache[k] # Nil => cache'[k] # Nil
          /\ \A e \in Elems :
                reported'[e] > reported[e] =>
                   \E t \in Threads : pc[t] \in {"i_notify", "a_notify"}]_vars

\* Every call has returned and an unbounded cache (its maximum size is 0 or
\* less) holds every key the callers use.
C12_Witness ==
    /\ maximumSize <= 0
    /\ Cardinality(LiveKeys) = FreeKeys
    /\ \A t \in Threads : pc[t] = "idle"

\* C13: while a key stays in the map the lastAccess of its entry never
\* decreases, whatever step is taken.
C13_TimestampMonotonic ==
    [][\A k \in Keys :
          (cache[k] # Nil /\ cache'[k] # Nil) =>
             ent'[cache'[k]].lastAccess >= ent[cache[k]].lastAccess]_vars

\* Whoever holds refreshMu is inside the critical section of lockEntry or
\* unlockEntry on that entry, which it leaves with its next step.
RefreshMuHeldBriefly ==
    \A e \in Entries :
       refreshMu[e] # Nil =>
          /\ rpc[refreshMu[e]] \in {"l_crit", "u_crit"}
          /\ rloc[refreshMu[e]].e = e

\* C14: every unlockEntry, whoever calls it and whatever the flag is, ends
\* with the entry Idle and refreshMu released; refreshMu is only ever held
\* for one critical section, so no call blocks for good; and a lockEntry
\* that finds the entry Idle returns true.
C14_UnlockResets ==
    [][/\ RefreshMuHeldBriefly /\ RefreshMuHeldBriefly'
       /\ \A c \in Callers :
             /\ (rpc[c] = "u_crit" /\ rpc'[c] = "idle") =>
                   /\ ~isRefreshing'[rloc[c].e]
                   /\ refreshMu'[rloc[c].e] = Nil
             /\ (rpc[c] = "l_crit" /\ rpc'[c] = "idle" /\ ~isRefreshing[rloc[c].e]) =>
                   /\ rloc'[c].can
                   /\ isRefreshing'[rloc[c].e]]_vars

\* unlockEntry was called on an entry by a caller that did not hold it, and
\* a lockEntry after it has returned true.
C14_Witness ==
    \E e \in Entries, c \in Callers :
       /\ wins[e].foul
       /\ rpc[c] = "idle"
       /\ rloc[c].can
       /\ e \in rloc[c].held
       /\ isRefreshing[e]
       /\ wins[e].n = 1

\* C15 as stated: newPolicy returns a policy for exactly the names lru, slru
\* and tinylfu and panics for every other name.
C15_ExactlyThreeNames ==
    policy # "none" =>
       (policyName \in {"lru", "slru", "tinylfu"} <=> policy # "panic")

\* C15, amended: newPolicy returns a policy for exactly the names lru, slru,
\* tinylfu and the empty name, which selects slru like the name slru; for
\* every other name it panics and returns no policy.
C15_AcceptedNames ==
    policy # "none" =>
       /\ policyName \in {"", "lru", "slru", "tinylfu"} <=> policy # "panic"
       /\ policyName \in {"", "slru"} => policy = "slruCache"
       /\ policyName = "lru" => policy = "lruCache"
       /\ policyName = "tinylfu" => policy = "tinyLFU"
       /\ policy \in {"slruCache", "lruCache", "tinyLFU", "panic"}

\* newPolicy("") has returned the segmented LRU policy.
C15_Witness == policy = "slruCache" /\ policyName = ""

\* The places of a thread inside GetIfPresent.
InGet == {"g_read", "g_elock", "g_crit"}

\* C16: no step of a GetIfPresent changes the map, the number of linked
\* elements, the length counter or a stored value, and none invokes the
\* listener; a miss changes nothing of the cache, and a hit leaves the list
\* as it was but for the hit element, which it moves to the front if it is
\* linked.
C16_LookupFrame ==
    [][\A t \in Threads :
          (pc[t] \in InGet /\ pc'[t] # pc[t]) =>
             /\ cache' = cache
             /\ Len(Linked(entries')) = Len(Linked(entries))
             /\ entries'.len = entries.len
             /\ LivePairs(Heap)' = LivePairs(Heap)
             /\ \A e \in Elems : reported'[e] <= reported[e]
             /\ pc'[t] \notin NotifyPcs
             /\ (pc[t] = "g_read" /\ cache[loc[t].k] = Nil) =>
                   /\ entries' = entries
                   /\ pc'[t] = "idle"
             /\ pc[t] = "g_crit" =>
                   Linked(entries') =
                      IF loc[t].el \in Range(Linked(entries))
                      THEN Touch(Linked(entries), loc[t].el)
                      ELSE Linked(entries)]_vars

\* C17: in a sequential history the Put of a live key leaves the map and
\* the length as they are, returns without eviction or listener call, and
\* leaves the key's element at the front with the new value; every Put leaves
\* its key in the map, at the front, with its value; and a GetIfPresent of
\* that key called next finds it and returns that value and true.
C17_InsertOrReplace ==
    [][LET k == loc[1].k
           v == loc[1].v
       IN  /\ pc[1] = "p_hit_crit" =>
                 /\ cache' = cache
                 /\ entries'.len = entries.len
                 /\ Len(Linked(entries')) = Len(Linked(entries))
                 /\ pc'[1] = "idle"
                 /\ log' = log
                 /\ evicted' = <<Nil, Nil>>
                 /\ Linked(entries')[1] = cache[k]
                 /\ ent'[cache[k]].value = v
                 /\ ret'[1] = [op |-> "put", k |-> k, ok |-> TRUE, v |-> v]
           /\ pc[1] = "p_crit" =>
                 /\ cache'[k] # Nil
                 /\ ent'[cache'[k]].value = v
                 /\ Linked(entries')[1] = cache'[k]
           /\ (pc[1] = "idle" /\ hist[2] = "put" /\ pc'[1] = "g_read"
                  /\ loc'[1].k = ret[1].k) =>
                 /\ cache[ret[1].k] # Nil
                 /\ ent[cache[ret[1].k]].value = ret[1].v
           /\ (pc[1] = "g_read" /\ cache[k] # Nil) =>
                 /\ pc'[1] = "g_elock"
                 /\ loc'[1].el = cache[k]
           /\ pc[1] = "g_crit" =>
                 ret'[1] = [op |-> "get", k |-> k, ok |-> TRUE,
                            v |-> ent[cache[k]].value]]_vars

\* Two Puts in a row have returned and only one element was ever allocated:
\* the second Put replaced the value of the live key in place.
C17_Witness ==
    /\ pc[1] = "idle"
    /\ hist = <<"put", "put">>
    /\ nalloc = 1
    /\ ret[1].op = "put"
    /\ cache[ret[1].k] = 1
    /\ ent[1].value = ret[1].v

\* C18: the critical section of a Put evicts one entry when it inserts a new
\* key and the length then exceeds a positive maximum size, and none
\* otherwise; the victim's key is not the key put; after the step the victim
\* is neither in the map nor linked, its key is not in the map, and nothing
\* else has left the map or the list; no other step of a Put removes
\* anything.  (The victim is the entry the Put goes on to report, so this is
\* stated for a cache with a listener.)
C18_OneVictimPerPut ==
    [][\A t \in Threads :
          LET k == loc[t].k
              overflow == /\ maximumSize > 0
                          /\ cache[k] = Nil
                          /\ entries.len + 1 > maximumSize
              victim == IF pc'[t] = "p_notify" THEN loc'[t].rem ELSE Nil
              removed == IF victim = Nil THEN 0 ELSE 1
          IN  /\ (onRemoval /\ pc[t] = "p_crit" /\ pc'[t] # pc[t]) =>
                    /\ pc'[t] # "panic"
                    /\ overflow <=> victim # Nil
                    /\ victim # Nil =>
                          /\ ent[victim].key # k
                          /\ victim \notin MapElems(cache')
                          /\ victim \notin Range(Linked(entries'))
                          /\ cache'[ent[victim].key] = Nil
                    /\ Cardinality(LiveKeys') =
                          Cardinality(LiveKeys \cup {k}) - removed
                    /\ Range(Linked(entries')) =
                          (Range(Linked(entries))
                              \cup (IF cache[k] = Nil THEN {nalloc + 1} ELSE {}))
                             \ {victim}
              /\ (pc[t] \in InPut \ {"p_crit"} /\ pc'[t] # pc[t]) =>
                    /\ cache' = cache
                    /\ Range(Linked(entries)) \subseteq Range(Linked(entries'))]_vars

\* C19: Put(k, v1) against Invalidate(k) on a live key k of value v0: when
\* both have returned, either k is absent and the listener was called once,
\* with (k, v1), or k is in the map with value v1 and the listener was called
\* once, with (k, v0); every other entry is as it was.
C19_PutAgainstInvalidate ==
    RaceDone =>
       LET k == ret[1].k
           v1 == ret[1].v
           v0 == CHOOSE v \in Values : <<k, v>> \in snap
           others == snap \ {<<k, v0>>}
       IN  \/ /\ cache[k] = Nil
              /\ log = << <<k, v1>> >>
              /\ LivePairs(Heap) = others
           \/ /\ cache[k] # Nil
              /\ ent[cache[k]].value = v1
              /\ log = << <<k, v0>> >>
              /\ LivePairs(Heap) = others \cup {<<k, v1>>}

\* A cache of maximum size one shared by the threads, with every key of Keys
\* in use: New(WithMaximumSize(1), WithRemovalListener(f)).
InitCap ==
    /\ InitCache
    /\ InitRefresh
    /\ maximumSize = 1
    /\ onRemoval = TRUE
    /\ oneShot = FALSE
    /\ keys = Keys
    /\ vals = 1..FreeVals
    /\ pc = [t \in Threads |-> "idle"]

SpecCap == InitCap /\ [][Next]_vars

\* C20: with a positive maximum size, whenever no thread holds cacheMu the
\* map holds at most maximumSize keys and the element of every key in the
\* map is linked in the entries list.
C20_ConcurrentCapacity ==
    (cacheMu = Nil /\ maximumSize > 0) =>
       /\ Cardinality(LiveKeys) <= maximumSize
       /\ \A k \in LiveKeys : cache[k] \in Range(Linked(entries))

====
